---- MODULE Spec2Model ----
(***************************************************************************)
(* Model of jeefies/paint: the ImageDrawer of src/drawer/drawer.go, the    *)
(* Api of src/drawer/api.go and the command surface of src/main/main.go.   *)
(*                                                                         *)
(* Goroutines are modelled as bags of records (one record per goroutine,   *)
(* holding its position and its locals), the two channels as records       *)
(* [open, q] (a nil channel has open = FALSE), the main goroutine as the   *)
(* record `main`.  The fields of ImageDrawer are read and written without  *)
(* any lock in the source; every read or write of a field is one step of   *)
(* the goroutine that makes it, so a goroutine sees either the old or the  *)
(* new value of a field another goroutine is writing.                      *)
(*                                                                         *)
(* Not modelled: ImgPath, the rate logger of Start (lines 141-160, it only *)
(* logs), SaveToken, saveBoard, PrintPixel, and readConfig with a          *)
(* config.txt present (main.go:134-167).  A fetch of the board that fails  *)
(* midway (api.go:87-91) is modelled like one that fails at once.          *)
(***************************************************************************)
EXTENDS Integers, Sequences, FiniteSets, Bags, TLC

(***************************************************************************)
(* Bounds.  The source's sizes are scaled down; the names are the source's *)
(* where the source has a name.                                            *)
(***************************************************************************)
\* uids are 1..MaxUid
MaxUid == 2
\* SetImage's size limit (200 in drawer.go:99)
MaxDim == 2
\* workers launched by one Start (4 in drawer.go:24)
WORKER_COUNT == 2
\* capacity of the unused channel (50 in drawer.go:25)
UNUSED_BUF == 2
\* canvas size (1000 x 600 in api.go:29-30)
WIDTH == 2
HEIGHT == 2
\* number of commands the main goroutine reads
MaxCmds == 3
\* workers running at once: a Start is not taken when the workers that
\* outlive its Reset and the new ones would be more
MaxWorkers == 3

\* drawer.go:23
INTERVAL == 30

\* drawer.go:27 and :29: both are 40000 = 200 * 200 in the source
UNCERT_LEN == MaxDim * MaxDim
WaitBufShort == (MaxDim * MaxDim) - 1
WAIT_BUF == MaxDim * MaxDim

Uids == 1..MaxUid

(***************************************************************************)
(* Colours.  A pixel of an image is a triple of 8-bit channels; At().RGBA()*)
(* widens each to 16 bits, the code shifts them back and packs them.       *)
(***************************************************************************)
RGBA16(c) == c * 257

Pack(r, g, b) == ((RGBA16(r) \div 256) * 65536) + ((RGBA16(g) \div 256) * 256) + (RGBA16(b) \div 256)

WhitePx == <<255, 255, 255>>
RedPx == <<255, 0, 0>>
GreyPx == <<170, 170, 170>>
ZeroPx == <<0, 0, 0>>

\* the literals 0xFFFFFF and 0xaaaaaa of drawer.go:190-191 and :248-249
LitWhite == (255 * 65536) + (255 * 256) + 255
LitGrey == (170 * 65536) + (170 * 256) + 170

ExpectedLiteral(px) == Pack(px[1], px[2], px[3])

\* drawer.go:189-192 and :247-250
Expected(px) ==
    LET exp == Pack(px[1], px[2], px[3])
    IN  IF exp = LitWhite THEN LitGrey ELSE exp

(***************************************************************************)
(* Images and files.                                                       *)
(***************************************************************************)
NilImage == [nil |-> TRUE, w |-> 0, h |-> 0, px |-> <<>>]

Image(w, h, px) == [nil |-> FALSE, w |-> w, h |-> h, px |-> px]

ImgA == Image(1, 2, <<WhitePx, RedPx>>)
ImgB == Image(2, 1, <<RedPx, WhitePx>>)
ImgBig == Image(MaxDim + 1, 1, [k \in 1..(MaxDim + 1) |-> RedPx])

Images == {ImgA, ImgB, ImgBig}

\* what a path names: no file, a file that does not decode, an image
Files == {[kind |-> "missing", img |-> NilImage], [kind |-> "garbage", img |-> NilImage]}
            \cup {[kind |-> "image", img |-> im] : im \in Images}

\* image.Image.At: the zero colour outside the bounds
At(im, x, y) ==
    IF x >= 0 /\ x < im.w /\ y >= 0 /\ y < im.h THEN im.px[(x * im.h) + y + 1] ELSE ZeroPx

(***************************************************************************)
(* Channels.                                                               *)
(***************************************************************************)
NilChan == [open |-> FALSE, q |-> <<>>]
MakeChan == [open |-> TRUE, q |-> <<>>]

(***************************************************************************)
(* Bags of goroutines.                                                     *)
(***************************************************************************)
One(r) == SetToBag({r})

Replace(B, old, new) == (B (-) One(old)) (+) One(new)

RECURSIVE SumCopies(_, _)
SumCopies(S, B) ==
    IF S = {} THEN 0
    ELSE LET x == CHOOSE x \in S : TRUE
         IN  CopiesIn(x, B) + SumCopies(S \ {x}, B)

MapBag(F(_), B) ==
    LET S == BagToSet(B)
    IN  [e \in {F(x) : x \in S} |-> SumCopies({x \in S : F(x) = e}, B)]

RECURSIVE Times(_, _)
Times(r, n) == IF n = 0 THEN EmptyBag ELSE One(r) (+) Times(r, n - 1)

VARIABLES
    cache,      \* api.cache: uid -> token
    board,      \* api.go's board, indexed x*HEIGHT + y
    img,        \* draw.img
    X, Y,       \* draw.X, draw.Y
    uncert,     \* draw.uncert
    waited,     \* draw.waited
    unused,     \* draw.unused
    ctx,        \* draw.ctx: "nil", "live" or "dead" (cancelled)
    cancelFunc, \* draw.cancelFunc /= nil
    workers,    \* goroutines running work()
    loops,      \* goroutines running check()
    timers,     \* the goroutines of drawer.go:199-206
    main,       \* the main goroutine
    ncmd,       \* commands read so far
    panicked    \* a goroutine panicked: the process is gone

vars == <<cache, board, img, X, Y, uncert, waited, unused, ctx, cancelFunc, workers, loops, timers, main, ncmd, panicked>>

drawerVars == <<img, X, Y, uncert, waited, unused, ctx, cancelFunc>>
taskVars == <<workers, loops, timers>>

\* the token the registration endpoint hands out for a uid
ServerToken(uid) == uid + 100

Idle == [pc |-> "idle", cont |-> "none", file |-> [kind |-> "missing", img |-> NilImage], seed |-> {}, uid |-> 0, ret |-> "none", life |-> "none"]

\* NewApi (api.go:201-203), NewDrawer (drawer.go:46-54), the zeroed board
\* (api.go:33); main is about to read the token file (main.go:173)
Init ==
    /\ cache = <<>>
    /\ board = [k \in 0..((WIDTH * HEIGHT) - 1) |-> 0]
    /\ img = NilImage
    /\ X = 0
    /\ Y = 0
    /\ uncert = [k \in 0..(UNCERT_LEN - 1) |-> FALSE]
    /\ waited = MakeChan
    /\ unused = MakeChan
    /\ ctx = "nil"
    /\ cancelFunc = FALSE
    /\ workers = EmptyBag
    /\ loops = EmptyBag
    /\ timers = EmptyBag
    /\ main = [Idle EXCEPT !.pc = "boot"]
    /\ ncmd = 0
    /\ panicked = FALSE

\* api.ReadToken (api.go:258-275): the tokens of the uids 1..n are read from
\* the file into the cache, nothing is sent on draw.unused; there is no
\* config.txt (main.go:127-131) and main comes to its loop
ReadToken(n) ==
    /\ main.pc = "boot"
    /\ cache' = [u \in 1..n |-> ServerToken(u)]
    /\ main' = [main EXCEPT !.pc = "idle"]
    /\ UNCHANGED <<board, drawerVars, taskVars, ncmd, panicked>>

(***************************************************************************)
(* Goroutine records.  `old` is history: the goroutine was launched by a   *)
(* Start that a later Reset has cancelled.  `seen` is history too: for a   *)
(* worker the offset it received and the placement and image of that       *)
(* moment, for a check() the placement and image at the start of its round *)
(* and whether the fetch of the board succeeded.                           *)
(***************************************************************************)
NoReq == [x |-> 0, y |-> 0, c |-> 0, uid |-> 0, tok |-> 0]

NoSeen == [v |-> 0, X |-> 0, Y |-> 0, img |-> NilImage, ok |-> FALSE]

\* the fields of the drawer a goroutine finds when it takes up offset v
Seen(v, ok) == [v |-> v, X |-> X, Y |-> Y, img |-> img, ok |-> ok]

\* a worker entering its loop (drawer.go:164-167)
NewWorker(imY) == [pc |-> "select", v |-> 0, uid |-> 0, imY |-> imY, req |-> NoReq, ok |-> FALSE, old |-> FALSE, seen |-> NoSeen]

\* a check() entering its loop (drawer.go:225-227)
NewLoop == [pc |-> "wait", live |-> TRUE, k |-> 0, x |-> 0, y |-> 0, old |-> FALSE, seen |-> NoSeen]

NewTimer(uid) == [pc |-> "sleep", uid |-> uid]

\* a goroutine blocked for good: its locals no longer matter
Stuck(g) == [g EXCEPT !.pc = "stuck"]

StuckWorker(w) == [w EXCEPT !.pc = "stuck", !.v = 0, !.uid = 0, !.imY = 0, !.req = NoReq, !.ok = FALSE, !.old = TRUE, !.seen = NoSeen]

FilterBag(P(_), B) == [e \in {x \in BagToSet(B) : P(x)} |-> CopiesIn(e, B)]

(***************************************************************************)
(* Reset (drawer.go:60-79), in three parts: the cancellation and the two   *)
(* nil assignments; the clearing of the flags and the two make()s; the     *)
(* seeding loop, one send at a time.                                       *)
(***************************************************************************)
\* What replacing the channels and cancelling the context does to a blocked
\* goroutine: a select on ctx.Done() wakes; a receive or send on a channel no
\* field refers to any more never completes.
CancelWorker(w) ==
    IF w.pc \in {"acqwait", "sendwait"} THEN StuckWorker(w) ELSE [w EXCEPT !.old = TRUE]

\* drawer.go:170-172: a worker blocked in the select returns when the
\* context is cancelled
NotInSelect(w) == w.pc /= "selwait"

CancelLoop(l) ==
    [l EXCEPT !.live = FALSE,
              !.pc = IF @ = "sendwait" THEN "stuck" ELSE @,
              !.old = TRUE]

TimerNotBlocked(t) == t.pc /= "sendwait"

\* drawer.go:62-68
ResetBegin(cont, file) ==
    /\ ctx' = IF cancelFunc THEN "dead" ELSE ctx
    /\ cancelFunc' = FALSE
    /\ waited' = NilChan
    /\ unused' = NilChan
    /\ workers' = MapBag(CancelWorker, FilterBag(NotInSelect, workers))
    /\ loops' = MapBag(CancelLoop, loops)
    /\ timers' = FilterBag(TimerNotBlocked, timers)
    /\ main' = [main EXCEPT !.pc = "rebuild", !.cont = cont, !.file = file, !.life = "reset"]

\* drawer.go:69-76
ResetRebuild ==
    /\ ~panicked
    /\ main.pc = "rebuild"
    /\ uncert' = [k \in DOMAIN uncert |-> FALSE]
    /\ waited' = MakeChan
    /\ unused' = MakeChan
    /\ main' = [main EXCEPT !.pc = "seed", !.seed = DOMAIN cache]
    /\ UNCHANGED <<cache, board, img, X, Y, ctx, cancelFunc, taskVars, ncmd, panicked>>

\* drawer.go:76-78: one iteration of the range over the map, in any order;
\* the send waits while the channel is full
ResetSeed ==
    /\ ~panicked
    /\ main.pc = "seed"
    /\ \E k \in main.seed :
        /\ Len(unused.q) < UNUSED_BUF
        /\ unused' = [unused EXCEPT !.q = Append(@, k)]
        /\ main' = [main EXCEPT !.seed = @ \ {k}]
    /\ UNCHANGED <<cache, board, img, X, Y, uncert, waited, ctx, cancelFunc, taskVars, ncmd, panicked>>

Done(ret, life) == [Idle EXCEPT !.ret = ret, !.life = life]

\* Reset returns to SetX, SetY (main.go:80, :94)
ResetReturn ==
    /\ ~panicked
    /\ main.pc = "seed" /\ main.seed = {} /\ main.cont = "none"
    /\ main' = Done("nil", "reset")
    /\ UNCHANGED <<cache, board, drawerVars, taskVars, ncmd, panicked>>

\* Reset returns to SetImage: drawer.go:91-102
SetImageRest ==
    /\ ~panicked
    /\ main.pc = "seed" /\ main.seed = {} /\ main.cont = "setimage"
    /\ img' = IF main.file.kind = "image" THEN main.file.img ELSE NilImage
    /\ main' = Done(IF main.file.kind /= "image" THEN "decode"
                    ELSE IF main.file.img.w > MaxDim \/ main.file.img.h > MaxDim THEN "size"
                    ELSE "nil", "reset")
    /\ UNCHANGED <<cache, board, X, Y, uncert, waited, unused, ctx, cancelFunc, taskVars, ncmd, panicked>>

\* Reset returns to Start: drawer.go:131-139; the goroutines dereference
\* draw.img at once (:164, :241), a nil image is a panic
StartRest ==
    /\ ~panicked
    /\ main.pc = "seed" /\ main.seed = {} /\ main.cont = "start"
    /\ ctx' = "live"
    /\ cancelFunc' = TRUE
    /\ IF img.nil
       THEN /\ panicked' = TRUE
            /\ UNCHANGED <<workers, loops>>
       ELSE /\ loops' = loops (+) One(NewLoop)
            /\ workers' = workers (+) Times(NewWorker(img.h), WORKER_COUNT)
            /\ UNCHANGED panicked
    /\ main' = Done("nil", "start")
    /\ UNCHANGED <<cache, board, img, X, Y, uncert, waited, unused, timers, ncmd>>

(***************************************************************************)
(* The commands of main.go.                                                *)
(***************************************************************************)
CanRead == ~panicked /\ main.pc = "idle" /\ ncmd < MaxCmds

\* main.go:122-124, drawer.go:129-130
CmdStart ==
    /\ CanRead
    /\ BagCardinality(FilterBag(NotInSelect, workers)) + WORKER_COUNT <= MaxWorkers
    /\ ncmd' = ncmd + 1
    /\ ResetBegin("start", main.file)
    /\ UNCHANGED <<cache, board, img, X, Y, uncert, panicked>>

\* main.go:52-69, drawer.go:82-90
CmdSetImage(f) ==
    /\ CanRead
    /\ ncmd' = ncmd + 1
    /\ IF f.kind = "missing"
       THEN /\ main' = Done("open", main.life)
            /\ UNCHANGED <<drawerVars, taskVars>>
       ELSE /\ ResetBegin("setimage", f)
            /\ UNCHANGED <<img, X, Y, uncert>>
    /\ UNCHANGED <<cache, board, panicked>>

\* main.go:71-83; WIDTH is the 1000 of the source
CmdSetX(nx) ==
    /\ CanRead
    /\ ncmd' = ncmd + 1
    /\ IF nx < 0 \/ nx > WIDTH
       THEN /\ main' = Done("invalid", main.life)
            /\ UNCHANGED <<drawerVars, taskVars>>
       ELSE /\ X' = nx
            /\ ResetBegin("none", main.file)
            /\ UNCHANGED <<img, Y, uncert>>
    /\ UNCHANGED <<cache, board, panicked>>

\* main.go:85-97; HEIGHT is the 600 of the source
CmdSetY(ny) ==
    /\ CanRead
    /\ ncmd' = ncmd + 1
    /\ IF ny < 0 \/ ny > HEIGHT
       THEN /\ main' = Done("invalid", main.life)
            /\ UNCHANGED <<drawerVars, taskVars>>
       ELSE /\ Y' = ny
            /\ ResetBegin("none", main.file)
            /\ UNCHANGED <<img, X, uncert>>
    /\ UNCHANGED <<cache, board, panicked>>

\* api.GetToken (api.go:277-289): the cached token, or the endpoint's answer
\* (getToken, api.go:149-172), stored on success
\* main.go:20-37: on success drawer.AddToken follows
CmdAddToken(uid, netOk) ==
    /\ CanRead
    /\ ncmd' = ncmd + 1
    /\ IF uid \in DOMAIN cache
       THEN /\ main' = [main EXCEPT !.pc = "add", !.uid = uid]
            /\ UNCHANGED cache
       ELSE IF netOk
       THEN /\ cache' = [u \in DOMAIN cache \cup {uid} |-> IF u = uid THEN ServerToken(uid) ELSE cache[u]]
            /\ main' = [main EXCEPT !.pc = "add", !.uid = uid]
       ELSE /\ main' = Done("failed", main.life)
            /\ UNCHANGED cache
    /\ UNCHANGED <<board, drawerVars, taskVars, panicked>>

\* main.go:39-50: drawer.AddToken alone
CmdFixToken(uid) ==
    /\ CanRead
    /\ ncmd' = ncmd + 1
    /\ main' = [main EXCEPT !.pc = "add", !.uid = uid]
    /\ UNCHANGED <<cache, board, drawerVars, taskVars, panicked>>

\* drawer.AddToken (drawer.go:56-58): the send waits while the channel is full
AddToken ==
    /\ ~panicked
    /\ main.pc = "add"
    /\ Len(unused.q) < UNUSED_BUF
    /\ unused' = [unused EXCEPT !.q = Append(@, main.uid)]
    /\ main' = Done("nil", main.life)
    /\ UNCHANGED <<cache, board, img, X, Y, uncert, waited, ctx, cancelFunc, taskVars, ncmd, panicked>>

\* The canvas snapshots the endpoint may serve: one colour everywhere.
Snapshots == {[k \in 0..((WIDTH * HEIGHT) - 1) |-> c] : c \in {0, LitGrey, LitWhite}}

\* api.Update / getBoard (api.go:69-109, :205-209): the board is replaced,
\* or the request fails (api.go:71-74) and the board stays
Update(ok, snap) == IF ok THEN snap ELSE board

\* main.go:202-203
CmdUpdate(ok, snap) ==
    /\ CanRead
    /\ ncmd' = ncmd + 1
    /\ board' = Update(ok, snap)
    /\ UNCHANGED <<cache, drawerVars, taskVars, main, panicked>>

(***************************************************************************)
(* WorkStatus (drawer.go:115-127).  len() of a nil channel is 0.           *)
(***************************************************************************)
NotRunning == -1
IdleStatus == 0
NoCredentials == -2

WorkStatusCacheFirst ==
    IF ~cancelFunc THEN NotRunning
    ELSE IF Cardinality(DOMAIN cache) = 0 THEN NoCredentials
    ELSE IF Len(waited.q) < 2 THEN IdleStatus
    ELSE (Len(waited.q) * INTERVAL) \div Cardinality(DOMAIN cache)

WorkStatusByPool ==
    IF ~cancelFunc THEN NotRunning
    ELSE IF Len(waited.q) < 2 THEN IdleStatus
    ELSE IF Cardinality(DOMAIN cache) = 0 THEN NoCredentials
    ELSE (Len(waited.q) * INTERVAL) \div (Len(unused.q) + 1)

WorkStatus ==
    IF ~cancelFunc THEN NotRunning
    ELSE IF Len(waited.q) < 2 THEN IdleStatus
    ELSE IF Cardinality(DOMAIN cache) = 0 THEN NoCredentials
    ELSE (Len(waited.q) * INTERVAL) \div Cardinality(DOMAIN cache)

(***************************************************************************)
(* work() (drawer.go:163-211).                                             *)
(***************************************************************************)
Quiet(w) == [w EXCEPT !.pc = "select", !.v = 0, !.uid = 0, !.req = NoReq, !.ok = FALSE, !.seen = NoSeen]

\* drawer.go:168-177: the select, evaluated on the fields as they are now.
\* With both cases ready Go takes either.
WorkSelect(w) ==
    /\ ~panicked
    /\ \/ /\ w.pc \in {"select", "selwait"}
          /\ waited.open /\ Len(waited.q) > 0
          /\ waited' = [waited EXCEPT !.q = Tail(@)]
          /\ workers' = Replace(workers, w, [w EXCEPT !.pc = "clear", !.v = Head(waited.q),
                                                         !.seen = Seen(Head(waited.q), TRUE)])
       \/ /\ w.pc = "select"
          /\ ctx = "dead"
          /\ workers' = workers (-) One(w)
          /\ UNCHANGED waited
       \/ /\ w.pc = "select"
          /\ ctx = "live" /\ Len(waited.q) = 0
          /\ workers' = Replace(workers, w, [w EXCEPT !.pc = "selwait"])
          /\ UNCHANGED waited
    /\ UNCHANGED <<cache, board, img, X, Y, uncert, unused, ctx, cancelFunc, loops, timers, main, ncmd, panicked>>

WorkClearSkip(w) ==
    /\ ~panicked
    /\ w.pc = "clear"
    /\ workers' = Replace(workers, w, [w EXCEPT !.pc = "acquire"])
    /\ UNCHANGED <<cache, board, img, X, Y, uncert, waited, unused, ctx, cancelFunc, loops, timers, main, ncmd, panicked>>

\* drawer.go:178
WorkClear(w) ==
    /\ ~panicked
    /\ w.pc = "clear"
    /\ uncert' = [uncert EXCEPT ![w.v] = FALSE]
    /\ workers' = Replace(workers, w, [w EXCEPT !.pc = "acquire"])
    /\ UNCHANGED <<cache, board, img, X, Y, waited, unused, ctx, cancelFunc, loops, timers, main, ncmd, panicked>>

getCacheAny(uid) == [tok |-> IF uid \in DOMAIN cache THEN cache[uid] ELSE 0, ok |-> TRUE]

\* api.getCache (api.go:219-224)
getCache(uid) == [tok |-> IF uid \in DOMAIN cache THEN cache[uid] ELSE 0, ok |-> uid \in DOMAIN cache]

\* drawer.go:180-192: the pixel, the token and the colour a worker holds
\* when it comes to call api.SetPixel; x and y are still those of the image
WorkRequest(w, uid) ==
    LET x == w.v \div w.imY
        y == w.v % w.imY
    IN  [x |-> x, y |-> y, c |-> Expected(At(img, x, y)), uid |-> uid, tok |-> getCache(uid).tok]

\* drawer.go:185-187: no token for the uid, the worker goes on to the next
\* offset; otherwise it calls SetPixel
AfterAcquire(w, uid) ==
    IF getCache(uid).ok
    THEN [w EXCEPT !.pc = "paint", !.v = 0, !.req = WorkRequest(w, uid)]
    ELSE Quiet(w)

\* drawer.go:179-194: the receive, with no case for ctx.Done() (on a nil
\* channel it never completes), then the request is made up
WorkAcquire(w) ==
    /\ ~panicked
    /\ \/ /\ w.pc \in {"acquire", "acqwait"}
          /\ unused.open /\ Len(unused.q) > 0
          /\ unused' = [unused EXCEPT !.q = Tail(@)]
          /\ IF img.nil
             THEN /\ panicked' = TRUE
                  /\ UNCHANGED workers
             ELSE /\ workers' = Replace(workers, w, AfterAcquire(w, Head(unused.q)))
                  /\ UNCHANGED panicked
       \/ /\ w.pc = "acquire"
          /\ unused.open /\ Len(unused.q) = 0
          /\ workers' = Replace(workers, w, [w EXCEPT !.pc = "acqwait"])
          /\ UNCHANGED <<unused, panicked>>
       \/ /\ w.pc = "acquire"
          /\ ~unused.open
          /\ workers' = Replace(workers, w, StuckWorker(w))
          /\ UNCHANGED <<unused, panicked>>
    /\ UNCHANGED <<cache, board, img, X, Y, uncert, waited, ctx, cancelFunc, loops, timers, main, ncmd>>

\* drawer.go:194: the call of api.SetPixel, its arguments x+draw.X and
\* y+draw.Y read now, and its result (setPixel, api.go:174-194: false on a
\* network error or a rejected request)
WorkPaint(w, ok) ==
    /\ ~panicked
    /\ w.pc = "paint"
    /\ workers' = Replace(workers, w, [w EXCEPT !.pc = "painted", !.ok = ok,
                                                !.req.x = @ + X, !.req.y = @ + Y])
    /\ UNCHANGED <<cache, board, drawerVars, loops, timers, main, ncmd, panicked>>

\* drawer.go:195: `if ok`, the branch that starts the cooldown goroutine
CooldownAlways(ok) == TRUE

Cooldown(ok) == ok

\* drawer.go:195-209: after a success the goroutine that will give the uid
\* back is started; after a failure the uid is sent back at once (the send
\* waits while the channel is full and never completes on a nil channel)
WorkRelease(w) ==
    /\ ~panicked
    /\ \/ /\ w.pc = "painted" /\ Cooldown(w.ok)
          /\ timers' = timers (+) One(NewTimer(w.req.uid))
          /\ workers' = Replace(workers, w, Quiet(w))
          /\ UNCHANGED unused
       \/ /\ w.pc = "painted" /\ ~Cooldown(w.ok)
          /\ unused.open /\ Len(unused.q) < UNUSED_BUF
          /\ unused' = [unused EXCEPT !.q = Append(@, w.req.uid)]
          /\ workers' = Replace(workers, w, Quiet(w))
          /\ UNCHANGED timers
       \/ /\ w.pc = "sendwait"
          /\ unused.open /\ Len(unused.q) < UNUSED_BUF
          /\ unused' = [unused EXCEPT !.q = Append(@, w.uid)]
          /\ workers' = Replace(workers, w, Quiet(w))
          /\ UNCHANGED timers
       \/ /\ w.pc = "painted" /\ ~Cooldown(w.ok)
          /\ unused.open /\ Len(unused.q) >= UNUSED_BUF
          /\ workers' = Replace(workers, w, [w EXCEPT !.pc = "sendwait", !.uid = w.req.uid, !.req = NoReq])
          /\ UNCHANGED <<unused, timers>>
       \/ /\ w.pc = "painted" /\ ~Cooldown(w.ok)
          /\ ~unused.open
          /\ workers' = Replace(workers, w, StuckWorker(w))
          /\ UNCHANGED <<unused, timers>>
    /\ UNCHANGED <<cache, board, img, X, Y, uncert, waited, ctx, cancelFunc, loops, main, ncmd, panicked>>

(***************************************************************************)
(* The goroutine of drawer.go:199-206.                                     *)
(***************************************************************************)
\* drawer.go:204-205: the sleep of INTERVAL s - 1/15 s is over and the uid is
\* sent; the send waits while the channel is full and never completes on a
\* nil channel
TimerFire(t) ==
    /\ ~panicked
    /\ \/ /\ unused.open /\ Len(unused.q) < UNUSED_BUF
          /\ unused' = [unused EXCEPT !.q = Append(@, t.uid)]
          /\ timers' = timers (-) One(t)
       \/ /\ t.pc = "sleep"
          /\ unused.open /\ Len(unused.q) >= UNUSED_BUF
          /\ timers' = Replace(timers, t, [t EXCEPT !.pc = "sendwait"])
          /\ UNCHANGED unused
       \/ /\ t.pc = "sleep"
          /\ ~unused.open
          /\ timers' = timers (-) One(t)
          /\ UNCHANGED unused
    /\ UNCHANGED <<cache, board, img, X, Y, uncert, waited, ctx, cancelFunc, workers, loops, main, ncmd, panicked>>

(***************************************************************************)
(* check() (drawer.go:224-268).                                            *)
(***************************************************************************)
\* drawer.go:228-241: the select on the one-second timeout and ctx.Done();
\* cancelled, check returns; otherwise the board is fetched and the bounds
\* of the image are read
LoopCycle(l, ok, snap) ==
    /\ ~panicked
    /\ l.pc = "wait"
    /\ IF ~l.live
       THEN /\ loops' = loops (-) One(l)
            /\ UNCHANGED <<board, panicked>>
       ELSE /\ board' = Update(ok, snap)
            /\ IF img.nil
               THEN /\ panicked' = TRUE
                    /\ UNCHANGED loops
               ELSE /\ loops' = Replace(loops, l, [l EXCEPT !.pc = "scan", !.k = 0, !.x = img.w, !.y = img.h,
                                                             !.seen = Seen(0, ok)])
                    /\ UNCHANGED panicked
    /\ UNCHANGED <<cache, drawerVars, workers, timers, main, ncmd>>

\* api.go:38-40, :215-217
getPixel(x, y) == board[(x * HEIGHT) + y]

DiffersRaw(l) ==
    LET i == l.k \div l.y
        j == l.k % l.y
    IN  ExpectedLiteral(At(img, i, j)) /= getPixel(X + i, Y + j)

\* drawer.go:252: the condition of put for offset k of the scan
Differs(l) ==
    LET i == l.k \div l.y
        j == l.k % l.y
    IN  Expected(At(img, i, j)) /= getPixel(X + i, Y + j)

\* the indices drawer.go:252 uses are inside board (api.go:33) and, when the
\* colours differ, inside uncert
InRange(l) ==
    LET i == l.k \div l.y
        j == l.k % l.y
    IN  /\ ((X + i) * HEIGHT) + (Y + j) \in DOMAIN board
        /\ (Differs(l) => l.k \in DOMAIN uncert)

\* drawer.go:260-266: the next offset, or the sleep of UPDATE_INTERVAL
\* seconds and the next round of the loop
AfterPut(l) ==
    IF l.k + 1 < l.x * l.y THEN [l EXCEPT !.pc = "scan", !.k = @ + 1]
    ELSE [l EXCEPT !.pc = "wait", !.k = 0, !.x = 0, !.y = 0, !.seen = NoSeen]

\* drawer.go:243-263: one call of put; the send waits while the channel is
\* full and never completes on a nil channel
LoopPut(l) ==
    /\ ~panicked
    /\ \/ /\ l.pc = "scan"
          /\ IF img.nil \/ ~InRange(l)
             THEN /\ panicked' = TRUE
                  /\ UNCHANGED <<uncert, waited, loops>>
             ELSE /\ UNCHANGED panicked
                  /\ IF Differs(l) /\ ~uncert[l.k]
                     THEN /\ uncert' = [uncert EXCEPT ![l.k] = TRUE]
                          /\ IF ~waited.open
                             THEN /\ loops' = Replace(loops, l, Stuck(l))
                                  /\ UNCHANGED waited
                             ELSE IF Len(waited.q) >= WAIT_BUF
                             THEN /\ loops' = Replace(loops, l, [l EXCEPT !.pc = "sendwait"])
                                  /\ UNCHANGED waited
                             ELSE /\ waited' = [waited EXCEPT !.q = Append(@, l.k)]
                                  /\ loops' = Replace(loops, l, AfterPut(l))
                     ELSE /\ loops' = Replace(loops, l, AfterPut(l))
                          /\ UNCHANGED <<uncert, waited>>
       \/ /\ l.pc = "sendwait"
          /\ waited.open /\ Len(waited.q) < WAIT_BUF
          /\ waited' = [waited EXCEPT !.q = Append(@, l.k)]
          /\ loops' = Replace(loops, l, AfterPut(l))
          /\ UNCHANGED <<uncert, panicked>>
    /\ UNCHANGED <<cache, board, img, X, Y, unused, ctx, cancelFunc, workers, timers, main, ncmd>>

(***************************************************************************)
(* The system.  The main goroutine reads commands (main.go:181-222); the   *)
(* workers, the loops and the timers run beside it.  A specification fixes *)
(* the inputs the commands and the board endpoint draw from.               *)
(***************************************************************************)
ResetSteps ==
    \/ ResetRebuild
    \/ ResetSeed
    \/ ResetReturn
    \/ SetImageRest
    \/ StartRest
    \/ AddToken

WorkStep ==
    \E w \in BagToSet(workers) :
        \/ WorkSelect(w)
        \/ WorkClear(w)
        \/ WorkAcquire(w)
        \/ \E ok \in BOOLEAN : WorkPaint(w, ok)
        \/ WorkRelease(w)

TimerStep == \E t \in BagToSet(timers) : TimerFire(t)

\* oks: the outcomes of the fetch (a failed fetch leaves the board as it
\* is, which a fetch of an unchanged canvas does too); snaps: the canvases
\* the endpoint may serve
LoopStep(oks, snaps) ==
    \E l \in BagToSet(loops) :
        \/ \E ok \in oks, snap \in snaps : LoopCycle(l, ok, snap)
        \/ LoopPut(l)

ZeroBoard == [k \in 0..((WIDTH * HEIGHT) - 1) |-> 0]

\* Sessions: one 1 x 1 white image, every uid, any number of Starts and
\* Resets within MaxCmds; the endpoint serves the empty canvas.
ImgW == Image(1, 1, <<WhitePx>>)

Commands ==
    \/ CmdStart
    \/ CmdSetImage([kind |-> "image", img |-> ImgW])
    \/ CmdSetX(0)
    \/ \E uid \in Uids, netOk \in BOOLEAN : CmdAddToken(uid, netOk)
    \/ \E uid \in Uids : CmdFixToken(uid)

Startup == \E n \in 0..MaxUid : ReadToken(n)

Next == Startup \/ Commands \/ ResetSteps \/ WorkStep \/ TimerStep \/ LoopStep({TRUE}, {ZeroBoard})

Spec == Init /\ [][Next]_vars

\* Images and placement: every file, placements inside and outside the
\* canvas, three canvases, one uid, one Start.
XInputs == {-1, 0, 1}
YInputs == {0, HEIGHT + 1}

CommandsImage ==
    \/ CmdStart /\ ctx = "nil"
    \/ \E f \in Files : CmdSetImage(f)
    \/ \E nx \in XInputs : CmdSetX(nx)
    \/ \E ny \in YInputs : CmdSetY(ny)
    \/ \E netOk \in BOOLEAN : CmdAddToken(1, netOk)
    \/ CmdFixToken(1)
    \/ \E ok \in BOOLEAN, snap \in Snapshots : CmdUpdate(ok, snap)

StartupImage == \E n \in 0..1 : ReadToken(n)

NextImage == StartupImage \/ CommandsImage \/ ResetSteps \/ WorkStep \/ TimerStep \/ LoopStep({TRUE}, Snapshots)

SpecImage == Init /\ [][NextImage]_vars

\* Cancellation: one image, one uid added once, one Start, and the
\* scheduling of Go: a goroutine that can run does run.  main reads commands
\* without end (main.go:181): the count of commands starts afresh when it
\* has reached MaxCmds, and the user goes on typing.
CommandsFair ==
    \/ CmdStart /\ ctx = "nil"
    \/ CmdSetImage([kind |-> "image", img |-> ImgW])
    \/ CmdSetX(0)
    \/ CmdAddToken(1, TRUE) /\ cache = <<>>

Afresh ==
    /\ ~panicked
    /\ main.pc = "idle"
    /\ ncmd = MaxCmds
    /\ ncmd' = 0
    /\ UNCHANGED <<cache, board, drawerVars, taskVars, main, panicked>>

NextFair == ReadToken(0) \/ CommandsFair \/ Afresh \/ ResetSteps \/ WorkStep \/ TimerStep \/ LoopStep({TRUE}, {ZeroBoard})

FairSpec ==
    /\ Init
    /\ [][NextFair]_vars
    /\ WF_vars(ReadToken(0) \/ CommandsFair \/ Afresh)
    /\ WF_vars(ResetSteps)
    /\ WF_vars(WorkStep)
    /\ WF_vars(TimerStep)
    /\ WF_vars(LoopStep({TRUE}, {ZeroBoard}))

(***************************************************************************)
(* What the claims speak of.                                               *)
(***************************************************************************)
Range(q) == {q[i] : i \in 1..Len(q)}

\* the uid a worker holds: received from draw.unused and neither sent back
\* nor handed to a cooldown goroutine
Held(w) ==
    IF w.pc \in {"paint", "painted"} THEN w.req.uid
    ELSE IF w.pc = "sendwait" THEN w.uid
    ELSE 0

Holders(uid) == SumCopies({w \in BagToSet(workers) : Held(w) = uid}, workers)

\* a worker (a loop) in state g takes a step of its own
WorkerMoves(w) == main' = main /\ CopiesIn(w, workers') < CopiesIn(w, workers)
LoopMoves(l) == main' = main /\ CopiesIn(l, loops') < CopiesIn(l, loops)

Arrives(n) == CopiesIn(n, workers') > CopiesIn(n, workers)

OldTasks ==
    \/ \E w \in BagToSet(workers) : w.old
    \/ \E l \in BagToSet(loops) : l.old

(* C1: every uid is held by at most one worker. *)
C1_MutualExclusion == \A uid \in Uids : Holders(uid) <= 1

(* C2: no offset occurs twice in the pending queue. *)
C2_NoDuplicateInQueue ==
    \A i, j \in 1..Len(waited.q) : i /= j => waited.q[i] /= waited.q[j]

(* C3: where Reset returns, no flag is set, the queue is empty and the pool
   holds exactly the known uids, each once. *)
C3_ResetPostState ==
    (main.pc = "seed" /\ main.seed = {}) =>
        /\ \A k \in DOMAIN uncert : ~uncert[k]
        /\ waited.q = <<>>
        /\ Range(unused.q) = DOMAIN cache
        /\ Len(unused.q) = Cardinality(DOMAIN cache)

(* C4: while the cooldown goroutine of a successful paint has not given the
   uid back, the uid is not in the pool and no worker holds it. *)
C4_CooldownRespected ==
    \A t \in BagToSet(timers) :
        t.pc = "sleep" => (t.uid \notin Range(unused.q) /\ Holders(t.uid) = 0)

(* C5: the step a worker takes after a failed paint is the send of its uid
   on draw.unused: the uid is appended to the pool and the worker is back at
   its select, or the worker waits in that send; no cooldown goroutine is
   started and nothing is dequeued. *)
C5_FailureReturnsAtOnce ==
    [][\A w \in BagToSet(workers) :
          (w.pc = "painted" /\ ~w.ok /\ WorkerMoves(w)) =>
              /\ timers' = timers
              /\ waited' = waited
              /\ \/ /\ unused' = [unused EXCEPT !.q = Append(@, w.req.uid)]
                    /\ Arrives(Quiet(w))
                 \/ /\ unused' = unused
                    /\ \E n \in BagToSet(workers') : n.pc \in {"sendwait", "stuck"} /\ Arrives(n)]_vars

C5_Witness ==
    /\ unused.open /\ Len(unused.q) < UNUSED_BUF
    /\ \E w \in BagToSet(workers) : w.pc = "painted" /\ ~w.ok /\ ~w.old

(* C6: for a white target pixel the loop flags the offset exactly when the
   canvas is not 0xAAAAAA there (and the offset is not flagged yet), the
   request a worker makes up carries 0xAAAAAA, and no request carries
   0xFFFFFF. *)
C6_WhiteSubstituted ==
    [][/\ \A l \in BagToSet(loops) :
            (l.pc = "scan" /\ LoopMoves(l) /\ ~panicked' /\ At(img, l.k \div l.y, l.k % l.y) = WhitePx) =>
                ((uncert'[l.k] /\ ~uncert[l.k])
                    <=> (getPixel(X + (l.k \div l.y), Y + (l.k % l.y)) /= LitGrey /\ ~uncert[l.k]))
       /\ \A w \in BagToSet(workers) :
            (w.pc \in {"acquire", "acqwait"} /\ WorkerMoves(w) /\ At(img, w.v \div w.imY, w.v % w.imY) = WhitePx) =>
                \A n \in BagToSet(workers') : (n.pc = "paint" /\ Arrives(n)) => n.req.c = LitGrey
       /\ \A n \in BagToSet(workers') : n.pc = "paint" => n.req.c /= LitWhite]_vars

C6_Witness ==
    /\ board = [k \in DOMAIN board |-> LitWhite]
    /\ \E w \in BagToSet(workers) :
          /\ w.pc = "paint" /\ ~w.old
          /\ At(img, w.v \div w.imY, w.v % w.imY) = WhitePx
          /\ w.req.c = LitGrey

(* C7: the tasks of a cancelled session all terminate. *)
C7_CancelledTasksTerminate == OldTasks ~> ~OldTasks

(* C8, as claimed: in a running session status() is NoCredentials whenever
   no credential is known and Idle whenever fewer than 2 offsets are queued. *)
C8_AsClaimed ==
    cancelFunc =>
        /\ (Cardinality(DOMAIN cache) = 0 => WorkStatus = NoCredentials)
        /\ (Len(waited.q) < 2 => WorkStatus = IdleStatus)

(* C8, amended: in a running session status() is Idle whenever fewer than 2
   offsets are queued, and NoCredentials when no credential is known and at
   least 2 offsets are queued. *)
C8_IdleFirst ==
    cancelFunc =>
        /\ (Len(waited.q) < 2 => WorkStatus = IdleStatus)
        /\ ((Cardinality(DOMAIN cache) = 0 /\ Len(waited.q) >= 2) => WorkStatus = NoCredentials)

C8_Witness == cancelFunc /\ Cardinality(DOMAIN cache) = 0 /\ Len(waited.q) >= 2 /\ ~panicked

(* C9: status() is NotRunning exactly when no Start has completed since the
   last Reset began; in a running session with at least 2 offsets queued and
   at least one credential known it is pendingCount * INTERVAL / known. *)
C9_Status ==
    /\ (main.life /= "start") <=> (WorkStatus = NotRunning)
    /\ (main.life = "start" /\ Len(waited.q) >= 2 /\ Cardinality(DOMAIN cache) >= 1) =>
            WorkStatus = (Len(waited.q) * INTERVAL) \div Cardinality(DOMAIN cache)

C9_Witness ==
    /\ main.life = "start" /\ ~panicked
    /\ Len(waited.q) >= 2
    /\ Cardinality(DOMAIN cache) >= 1
    /\ Len(unused.q) >= 1

(* C10: a SetImage that returns the size error leaves draw.img as it was. *)
C10_OversizedRejected ==
    [][(main.cont = "setimage" /\ main'.pc = "idle" /\ main'.ret = "size") => img' = img]_vars

\* C11: a credential handed to the drawer's AddToken(uid, tok) becomes a known
\* credential, one of those Reset seeds the pool with: when the call returns
\* the uid is in the set Reset reads (api.cache, drawer.go:76-78), so a Reset
\* that follows makes it available again, and so does a second Reset.
C11_AddedIsKnown ==
    [][(main.pc = "add" /\ main'.pc = "idle") => main.uid \in DOMAIN cache']_vars

(***************************************************************************)
(* SpecCycle: the rounds of check() on their own.  All commands come       *)
(* before Start, the workers Start launches are given no step, and the     *)
(* canvas on the server stays what it was at Start (nobody paints it), so  *)
(* a fetch returns the board that is there, or fails.                      *)
(***************************************************************************)
ImgRed == Image(2, 2, <<RedPx, RedPx, RedPx, RedPx>>)
ImgMix == Image(2, 2, <<WhitePx, RedPx, GreyPx, ZeroPx>>)

CycleFiles == {[kind |-> "image", img |-> im] : im \in {ImgA, ImgRed, ImgMix}}

CommandsCycle ==
    \/ CmdStart /\ ctx = "nil"
    \/ \E f \in CycleFiles : CmdSetImage(f) /\ ctx = "nil"
    \/ \E nx \in {0, 1} : CmdSetX(nx) /\ ctx = "nil"
    \/ \E snap \in Snapshots : CmdUpdate(TRUE, snap) /\ ctx = "nil"

NextCycle ==
    \/ StartupImage
    \/ CommandsCycle
    \/ ResetRebuild
    \/ ResetSeed
    \/ ResetReturn
    \/ SetImageRest
    \/ StartRest
    \/ LoopStep(BOOLEAN, {board})

SpecCycle == Init /\ [][NextCycle]_vars

\* pixel k of the target image (k = i*H + j) is not, after the white
\* substitution, what the board has at (X+i, Y+j)
Mismatch(k) ==
    LET i == k \div img.h
        j == k % img.h
    IN  Expected(At(img, i, j)) /= getPixel(X + i, Y + j)

\* the mismatching offsets below n, in the order of the scan
RECURSIVE Mismatches(_)
Mismatches(n) ==
    IF n = 0 THEN <<>>
    ELSE IF Mismatch(n - 1) THEN Append(Mismatches(n - 1), n - 1)
    ELSE Mismatches(n - 1)

\* the Pending Set holds nothing at or beyond offset k: nothing at all at the
\* start of a round (k = 0), and in a round that started from an empty set
\* nothing of what the scan has not visited yet
EmptyFrom(k) ==
    \A j \in DOMAIN uncert : j >= k => (~uncert[j] /\ j \notin Range(waited.q))

\* C12: with no worker dequeuing, a round of check() that starts from an
\* empty Pending Set visits the offsets 0, 1, ... W*H-1 one after the other,
\* each once, and after the visit of offset k the queue holds exactly the
\* mismatching offsets up to k, each once, and exactly those flags are set;
\* at the end of the round that is every mismatching offset of the image.
C12_CycleQueuesMismatches ==
    [][\A l \in BagToSet(loops) :
          (l.pc = "scan" /\ LoopMoves(l) /\ EmptyFrom(l.k) /\ ~panicked')
              => /\ waited'.q = Mismatches(l.k + 1)
                 /\ \A k \in DOMAIN uncert : uncert'[k] <=> k \in Range(Mismatches(l.k + 1))
                 /\ l.x = img.w /\ l.y = img.h
                 /\ IF l.k + 1 < img.w * img.h
                    THEN \E n \in BagToSet(loops') : n.pc = "scan" /\ n.k = l.k + 1
                    ELSE \E n \in BagToSet(loops') : n.pc = "wait"]_vars

\* the round over a 2x2 image that differs from the canvas everywhere is
\* over and the four offsets are queued
C12_Witness ==
    /\ img = ImgRed
    /\ waited.q = <<0, 1, 2, 3>>
    /\ \A k \in 0..3 : uncert[k]
    /\ \E l \in BagToSet(loops) : l.pc = "wait"

\* how many times uid is in the channel's buffer
Count(q, uid) == Cardinality({i \in 1..Len(q) : q[i] = uid})

\* every uid that was taken from draw.unused has come back or is gone: no
\* cooldown goroutine is left and no worker holds a uid
AllReturned ==
    /\ timers = EmptyBag
    /\ \A w \in BagToSet(workers) : Held(w) = 0

\* C13: resets neither lose nor duplicate a credential, also when a cooldown
\* goroutine or a worker of the cancelled session gives its uid back after
\* the Reset: once a Reset has run and every such uid has been given back,
\* each known uid is in the pool exactly once and nothing else is.
C13_ResetKeepsCredentials ==
    (main.pc = "idle" /\ main.life /= "none" /\ AllReturned)
        => /\ \A uid \in DOMAIN cache : Count(unused.q, uid) = 1
           /\ Range(unused.q) \subseteq DOMAIN cache

\* C14: a worker clears the flag of an offset right after it has dequeued it,
\* before it receives a uid and before it paints; no step of a worker sets a
\* flag or appends to the queue, so after a failed paint the offset is back
\* in the Pending Set only when a later scan puts it there.
C14_FlagClearedAtDequeue ==
    [][\A w \in BagToSet(workers) :
          WorkerMoves(w)
              => /\ \A k \in DOMAIN uncert : uncert'[k] => uncert[k]
                 /\ \/ waited' = waited
                    \/ /\ w.pc \in {"select", "selwait"}
                       /\ Len(waited.q) > 0
                       /\ waited' = [waited EXCEPT !.q = Tail(@)]
                       /\ unused' = unused
                       /\ \E n \in BagToSet(workers') :
                             Arrives(n) /\ n.pc = "clear" /\ n.v = Head(waited.q)
                 /\ w.pc = "clear"
                        => /\ ~uncert'[w.v]
                           /\ unused' = unused
                           /\ \E n \in BagToSet(workers') :
                                 Arrives(n) /\ n.pc = "acquire" /\ n.v = w.v
                 /\ Len(unused'.q) < Len(unused.q) => w.pc \in {"acquire", "acqwait"}
                 /\ (\E n \in BagToSet(workers') : Arrives(n) /\ n.pc = "painted")
                        => w.pc = "paint"]_vars

\* a paint has failed and its offset is neither flagged nor queued
C14_Witness ==
    /\ \E w \in BagToSet(workers) : w.pc = "painted" /\ ~w.ok /\ ~w.old
    /\ \A k \in DOMAIN uncert : ~uncert[k]
    /\ waited.q = <<>>
    /\ waited.open

\* C15: a worker that receives a uid for which no token is cached makes no
\* paint request and starts no cooldown, does not send the uid back, and goes
\* on to its next dequeue; the offset it had dequeued stays as it is,
\* unflagged by the worker and not queued again.
C15_UnknownCredentialDropped ==
    [][\A w \in BagToSet(workers) :
          (/\ WorkerMoves(w)
           /\ w.pc \in {"acquire", "acqwait"}
           /\ Len(unused'.q) < Len(unused.q)
           /\ Head(unused.q) \notin DOMAIN cache
           /\ ~panicked')
              => /\ Arrives(Quiet(w))
                 /\ \A n \in BagToSet(workers') : Arrives(n) => n.pc = "select"
                 /\ unused' = [unused EXCEPT !.q = Tail(@)]
                 /\ timers' = timers
                 /\ waited' = waited
                 /\ uncert' = uncert]_vars

\* a worker that has dequeued an offset is about to receive a uid that has
\* no token
C15_Witness ==
    /\ ~img.nil
    /\ unused.open /\ Len(unused.q) > 0
    /\ Head(unused.q) \notin DOMAIN cache
    /\ \E w \in BagToSet(workers) : w.pc \in {"acquire", "acqwait"} /\ ~uncert[w.v]

\* C16: when the fetch of the canvas fails, the diff of that round is
\* skipped: in a round whose fetch failed check() sets no flag and queues no
\* offset (it goes on running and fetches again in the next round).
C16_FailedRefreshSkipsDiff ==
    [][\A l \in BagToSet(loops) :
          (LoopMoves(l) /\ l.pc \in {"scan", "sendwait"} /\ ~l.seen.ok)
              => uncert' = uncert /\ waited' = waited]_vars

\* C17: a change of the placement (SetX, SetY) or of the target image resets
\* before any worker or check() sees it: the image a worker reads the pixel
\* of and the placement it hands to SetPixel are those its offset was
\* dequeued under, and every comparison of a round of check() is made with
\* the placement and image the round started with.
C17_ChangeForcesReset ==
    [][/\ \A w \in BagToSet(workers) :
             (WorkerMoves(w) /\ ~panicked')
                 => /\ (/\ w.pc \in {"acquire", "acqwait"}
                        /\ Len(unused'.q) < Len(unused.q)
                        /\ Head(unused.q) \in DOMAIN cache) => img = w.seen.img
                    /\ w.pc = "paint" => (X = w.seen.X /\ Y = w.seen.Y)
       /\ \A l \in BagToSet(loops) :
             (LoopMoves(l) /\ l.pc = "scan" /\ ~panicked')
                 => (X = l.seen.X /\ Y = l.seen.Y /\ img = l.seen.img)]_vars

\* the paint request for offset v = i*H + j of image im placed at (x0, y0),
\* made with uid: pixel (x0+i, y0+j), the white-substituted colour of pixel
\* (i, j), the uid and its cached token
RequestFor(v, x0, y0, im, uid) ==
    LET i == v \div im.h
        j == v % im.h
    IN  [x |-> x0 + i, y |-> y0 + j, c |-> Expected(At(im, i, j)), uid |-> uid, tok |-> getCache(uid).tok]

\* C18: the request a worker makes for a dequeued offset v = i*H + j targets
\* (X+i, Y+j), carries the white-substituted colour of pixel (i, j) of the
\* target image and the uid and token of the credential the worker received;
\* placement and image being those the offset was dequeued under or, read
\* the other way, those in force when the request is made.
C18_RequestMatchesOffset ==
    [][\A w \in BagToSet(workers) :
          (WorkerMoves(w) /\ w.pc = "paint")
              => \E n \in BagToSet(workers') :
                    /\ Arrives(n) /\ n.pc = "painted"
                    /\ n.req.uid \in DOMAIN cache
                    /\ \/ n.req = RequestFor(w.seen.v, w.seen.X, w.seen.Y, w.seen.img, n.req.uid)
                       \/ n.req = RequestFor(w.seen.v, X, Y, img, n.req.uid)]_vars

(***************************************************************************)
(* FairPool: the pool with no session running.  The token file holds up to *)
(* one credential more than draw.unused has room for; the commands are x   *)
(* (a Reset and nothing else), f and a.  The main goroutine is the only    *)
(* one there is, and it runs whenever it can.                              *)
(***************************************************************************)
MoreUids == UNUSED_BUF + 1

CommandsPool ==
    \/ CmdSetX(0)
    \/ \E uid \in 1..MoreUids : CmdFixToken(uid)
    \/ \E uid \in 1..MoreUids, netOk \in BOOLEAN : CmdAddToken(uid, netOk)

MainSteps == ResetRebuild \/ ResetSeed \/ ResetReturn \/ AddToken

NextPool ==
    \/ \E n \in 0..MoreUids : ReadToken(n)
    \/ CommandsPool
    \/ ResetRebuild
    \/ ResetSeed
    \/ ResetReturn
    \/ AddToken

FairPool == Init /\ [][NextPool]_vars /\ WF_vars(MainSteps)

\* C19: the capacity of the pool limits nothing: a Reset (its seeding) and an
\* AddToken that have been called return, however many credentials are
\* known, more than the capacity too, and with no worker running.
C19_PoolCallsReturn == (main.pc \in {"rebuild", "seed", "add"}) ~> (main.pc = "idle")

\* C20: the sessions are isolated: once a Reset has rebuilt the Pending Set
\* and the pool, no step of a goroutine launched by an earlier Start touches
\* them: a cancelled check() sets no flag and queues nothing, a cancelled
\* worker dequeues nothing, clears no flag and takes or gives no uid; so at
\* most the one check() and the WORKER_COUNT workers of the last Start
\* operate on the current Pending Set and pool.
C20_SessionIsolation ==
    [][/\ \A l \in BagToSet(loops) :
             (l.old /\ LoopMoves(l) /\ main.pc /= "rebuild")
                 => (uncert' = uncert /\ waited' = waited)
       /\ \A w \in BagToSet(workers) :
             (w.old /\ WorkerMoves(w) /\ main.pc /= "rebuild")
                 => (uncert' = uncert /\ waited' = waited /\ unused' = unused)]_vars

(***************************************************************************)
(* SpecSession: one session.  All commands come before the one Start, so   *)
(* no Reset is called once goroutines exist; then check(), the workers and *)
(* the cooldown goroutines run, and the canvas changes under them.         *)
(***************************************************************************)
\* the canvases check() may be served in this specification
SessionBoards == {snap \in Snapshots : snap[0] \in {0, LitGrey}}

NextSession ==
    \/ StartupImage
    \/ CommandsCycle
    \/ ResetRebuild
    \/ ResetSeed
    \/ ResetReturn
    \/ SetImageRest
    \/ StartRest
    \/ WorkStep
    \/ TimerStep
    \/ LoopStep({TRUE}, SessionBoards)

SpecSession == Init /\ [][NextSession]_vars

\* the number of flags that are set
NFlags == Cardinality({k \in DOMAIN uncert : uncert[k]})

\* C21: in a session with no Reset the queue never holds more entries than
\* there are flags set, and never more flags are set than the image has
\* pixels, which is at most the capacity of the queue: check() is never
\* made to wait with an offset in its hand (draw.waited <- offset always
\* completes at once), so no mismatch it has flagged is left unqueued.
C21_QueueWithinFlags ==
    (main.life = "start" /\ ~panicked)
        => /\ Len(waited.q) <= NFlags
           /\ NFlags <= img.w * img.h
           /\ NFlags <= WAIT_BUF
           /\ \A l \in BagToSet(loops) : l.pc \notin {"sendwait", "stuck"}

\* the queue is full: every pixel of a 2x2 image is flagged and queued
\* while a worker is at work on an offset it has dequeued before
C21_Witness ==
    /\ main.life = "start"
    /\ Len(waited.q) = WAIT_BUF
    /\ NFlags = WAIT_BUF
    /\ \E w \in BagToSet(workers) : w.pc \in {"paint", "painted"}

(***************************************************************************)
(* FairSession: one session under fair scheduling.  The token file holds   *)
(* at least one credential; the image is set and Start is called once, and *)
(* after that the only command is a, for a credential not yet known (the   *)
(* uids come in their order: which uid is new makes no difference).        *)
(* Every goroutine that can take a step takes it in the end: the worker at *)
(* each place of work() (a receive or send that can complete infinitely    *)
(* often does complete, Go serves waiting goroutines in turn), the         *)
(* cooldown goroutines likewise, check(), and main inside a call.          *)
(***************************************************************************)
SessionUids == 1..(UNUSED_BUF + WORKER_COUNT)

CommandsSession ==
    \/ CmdStart /\ ctx = "nil"
    \/ CmdSetImage([kind |-> "image", img |-> ImgW]) /\ ctx = "nil"
    \/ \E uid \in SessionUids : CmdAddToken(uid, TRUE) /\ uid = Cardinality(DOMAIN cache) + 1

StartupSession == \E n \in 1..UNUSED_BUF : ReadToken(n)

\* the places of work() where a worker can always take a step, and those
\* where it waits for a channel
RunningPcs == {"select", "clear", "acquire", "paint", "painted"}
WaitingPcs == {"selwait", "acqwait", "sendwait"}

\* a step of a worker that is at pc
WorkAt(pc) ==
    \E w \in BagToSet(workers) :
        /\ w.pc = pc
        /\ \/ WorkSelect(w)
           \/ WorkClear(w)
           \/ WorkAcquire(w)
           \/ \E ok \in BOOLEAN : WorkPaint(w, ok)
           \/ WorkRelease(w)

\* a step of a cooldown goroutine that is at pc
TimerAt(pc) == \E t \in BagToSet(timers) : t.pc = pc /\ TimerFire(t)

\* main inside Reset, SetImage, Start or AddToken
MainSession == ResetRebuild \/ ResetSeed \/ SetImageRest \/ StartRest \/ AddToken

NextFairSession ==
    \/ StartupSession
    \/ CommandsSession
    \/ Afresh
    \/ ResetRebuild
    \/ ResetSeed
    \/ SetImageRest
    \/ StartRest
    \/ AddToken
    \/ WorkStep
    \/ TimerStep
    \/ LoopStep({TRUE}, {ZeroBoard})

FairSession ==
    /\ Init
    /\ [][NextFairSession]_vars
    /\ WF_vars(StartupSession \/ MainSession)
    /\ \A pc \in RunningPcs : WF_vars(WorkAt(pc))
    /\ \A pc \in WaitingPcs : SF_vars(WorkAt(pc))
    /\ WF_vars(TimerAt("sleep"))
    /\ SF_vars(TimerAt("sendwait"))
    /\ WF_vars(LoopStep({TRUE}, {ZeroBoard}))

\* C22: in a running session with no Reset and a known credential, paint
\* calls returning and workers and cooldown goroutines scheduled fairly, an
\* offset that is in the queue is dequeued in the end, a worker that has
\* dequeued an offset comes to make its paint request, and a worker that
\* waits for a uid gets one.
C22_QueuedIsPainted ==
    /\ (main.life = "start" /\ Len(waited.q) > 0) ~> (Len(waited.q) = 0)
    /\ (\E w \in BagToSet(workers) : w.pc \in {"clear", "acquire", "acqwait"})
           ~> (\E w \in BagToSet(workers) : w.pc \in {"paint", "painted"})

\* C23: nothing is indexed outside its array: the canvas coordinate
\* (X+i, Y+j) that check() is about to read in its scan lies inside the
\* WIDTH x HEIGHT canvas, the offset it is about to flag is inside
\* draw.uncert, and so is the offset whose flag a worker is about to clear;
\* for every placement SetX and SetY accept and every image SetImage leaves
\* in draw.img.  Only the tasks of the present session are looked at, so a
\* violation owes nothing to a task that outlived a Reset.
C23_IndicesInRange ==
    /\ \A l \in BagToSet(loops) :
          (l.pc = "scan" /\ ~l.old)
              => LET i == l.k \div l.y
                     j == l.k % l.y
                 IN  /\ X + i >= 0 /\ X + i < WIDTH
                     /\ Y + j >= 0 /\ Y + j < HEIGHT
                     /\ (~img.nil /\ InRange(l) /\ Differs(l)) => l.k < UNCERT_LEN
    /\ \A w \in BagToSet(workers) : (w.pc = "clear" /\ ~w.old) => w.v < UNCERT_LEN

====
